---- MODULE Spec2Model ----
(***************************************************************************)
(* Model of the Kurumim WhatsApp conversation engine (src/main.py):        *)
(* the per-user session kept in user_states, the handler                   *)
(* process_whatsapp_message with its media branch and its stage table,     *)
(* and the collaborators it consults (ASR, TTS, R2 storage, Meta media).   *)
(* Spec runs the handler one event at a time; SpecTasks runs it as the     *)
(* asyncio tasks whatsapp_receive_message creates, which interleave at     *)
(* their awaits and send the replies; SpecUsers does so for two senders;   *)
(* SpecTable runs the handler from the sessions at the end of a pass.      *)
(***************************************************************************)
EXTENDS Integers, Sequences, FiniteSets, TLC

VARIABLES
    asr_pipeline,       \* module global: Whisper pipeline loaded (main.py:58-69)
    google_tts_client,  \* module global: TTS client created (main.py:72-98)
    s3_client,          \* module global: R2 client created (main.py:106-127)
    WHATSAPP_ACCESS_TOKEN, \* module global: the Meta API token is set (main.py:43)
    user_states,        \* module global dict: state key -> session (main.py:134)
    task_log,           \* history: tasks that became current_audio_task since the session's creation
    last,               \* the event handled by the latest step, what the collaborators did, and the reply
    objects,            \* the session dicts init_user_state has created, by identity (main.py:233-255)
    state_ref,          \* user_states as references: the dict each state key holds, 0 for no entry
    tasks,              \* the tasks asyncio.create_task has started, in creation order (main.py:731-733)
    outbox,             \* the POSTs send_whatsapp_response has issued, in the order issued (main.py:308-310)
    first_state         \* history: each user's session when the first task was created

seq_vars == <<user_states, task_log, last>>
task_vars == <<objects, state_ref, tasks, outbox, first_state>>
vars == <<asr_pipeline, google_tts_client, s3_client, WHATSAPP_ACCESS_TOKEN, user_states, task_log, last,
          objects, state_ref, tasks, outbox, first_state>>

-----------------------------------------------------------------------------
(* Values *)

\* Python's None, for the text fields, the media id and the session lookup
None == "None"

\* Python's None in the integer fields (age, emotional_state)
NoneInt == -1

\* WhatsApp sender numbers (message["from"])
Users == {"5511"}

\* message["text"]["body"] of the text events
TextInputs ==
    {"", "/start", "/START", "texto", "VOZ", "sim", "N",
     "5", "121", "²", "Ex-Fumante"}

\* how many distinct recordings the audio events carry
MaxMedia == 1

\* message["audio"]["id"] of the audio events
MediaIds == {<<"media1", "media2", "media3">>[i] : i \in 1..MaxMedia}

\* what Whisper may return for a recording: a text, or None on failure
Transcripts == {None, "", "sim", "N", "5"}

\* str.lower() on the texts above
Lower(s) ==
    CASE s = "/START" -> "/start"
      [] s = "VOZ" -> "voz"
      [] s = "N" -> "n"
      [] s = "Ex-Fumante" -> "ex-fumante"
      [] OTHER -> s

\* str.isdigit() on the texts above: true of the superscript two as well
IsDigit(s) == s \in {"5", "121", "²"}

\* int() raises ValueError on a text: of the texts str.isdigit() accepts,
\* on the one that is not a decimal digit string
IntRaises(s) == s = "²"

\* int() on the decimal digit strings above
ToInt(s) ==
    CASE s = "5" -> 5
      [] s = "121" -> 121
      [] OTHER -> 0

\* truth value of an optional string: None and "" are false
Truthy(s) == s # None /\ s # ""

\* the list assigned to tasks_queue at awaiting_environment
TaskCatalog ==
    <<"silence", "vogal_a", "vogal_e", "vogal_i", "vogal_o",
      "fricativo_s", "fricativo_z", "sentence_read">>

\* f"awaiting_audio_{task}"
AwaitingAudio(task) ==
    CASE task = "silence" -> "awaiting_audio_silence"
      [] task = "vogal_a" -> "awaiting_audio_vogal_a"
      [] task = "vogal_e" -> "awaiting_audio_vogal_e"
      [] task = "vogal_i" -> "awaiting_audio_vogal_i"
      [] task = "vogal_o" -> "awaiting_audio_vogal_o"
      [] task = "fricativo_s" -> "awaiting_audio_fricativo_s"
      [] task = "fricativo_z" -> "awaiting_audio_fricativo_z"
      [] task = "sentence_read" -> "awaiting_audio_sentence_read"
      [] OTHER -> "awaiting_audio_"

\* current_stage.startswith("awaiting_audio_")
StartsWithAwaitingAudio(stage) ==
    stage \in {AwaitingAudio(TaskCatalog[i]) : i \in 1..Len(TaskCatalog)} \cup {"awaiting_audio_"}

\* R2_ENDPOINT_URL_PUBLIC is assigned right after s3_client, in the same branch
R2_ENDPOINT_URL_PUBLIC == s3_client

\* WHATSAPP_PHONE_NUMBER_ID is read from the same environment right after the token
WHATSAPP_PHONE_NUMBER_ID == WHATSAPP_ACCESS_TOKEN

\* MessageNameBound for a handler that names the payload where it reads it
MessageNameBound_Resolved == TRUE

\* does the name `message` resolve inside process_whatsapp_message? Its
\* parameters are user_id, username, user_input_text, user_audio_media_id and
\* raw_message_payload, and the module defines no global of that name.
MessageNameBound == FALSE

-----------------------------------------------------------------------------
(* Replies: a reply text is the sequence of its parts *)

Msg(m) == <<[msg |-> m, arg |-> ""]>>
MsgArg(m, a) == <<[msg |-> m, arg |-> a]>>

Welcome == Msg("welcome_choose_mode")

\* in place of a reply: the handler raised and returned nothing
Raised == Msg("raised")

-----------------------------------------------------------------------------
(* Session *)

\* init_user_state that leaves the mode unset
init_user_state_ModeUnset ==
    [stage |-> "initial",
     name |-> None,
     age |-> NoneInt,
     diagnosis |-> None,
     smoking_status |-> None,
     emotional_state |-> NoneInt,
     environment |-> None,
     current_audio_task |-> None,
     audio_urls |-> <<>>,
     tasks_queue |-> <<>>,
     interaction_mode |-> None]

\* the record init_user_state stores
init_user_state ==
    [stage |-> "initial",
     name |-> None,
     age |-> NoneInt,
     diagnosis |-> None,
     smoking_status |-> None,
     emotional_state |-> NoneInt,
     environment |-> None,
     current_audio_task |-> None,
     audio_urls |-> <<>>,
     tasks_queue |-> <<>>,
     interaction_mode |-> "text"]

\* a user's session, or its absence from user_states
NoSession == [present |-> FALSE, us |-> init_user_state]
Session(us) == [present |-> TRUE, us |-> us]

\* what a return statement of the handler hands back
Ret(reply, state) == [response_text |-> reply, state |-> state]


\* user_state["metadata"]["audio_urls"][task_name] = url on an insertion-ordered dict
DictPut(d, k, v) ==
    IF \E i \in 1..Len(d) : d[i].task = k
    THEN [i \in 1..Len(d) |-> IF d[i].task = k THEN [task |-> k, url |-> v] ELSE d[i]]
    ELSE Append(d, [task |-> k, url |-> v])

\* get_user_state_key that leaves the sender out of the key
get_user_state_key_PlatformOnly(platform, user_id) == <<platform, "">>

\* f"{platform}_{user_id}"
get_user_state_key(platform, user_id) == <<platform, user_id>>

\* the keys user_states can hold for a set of senders
StateKeys(users) == {get_user_state_key("whatsapp", u) : u \in users}

-----------------------------------------------------------------------------
(* The stage table of process_whatsapp_message, one operator per branch.   *)
(* us is the session, processed_text the resolved text, audio the media id *)

StageInitial(us, processed_text) ==
    IF Truthy(processed_text) /\ Lower(processed_text) = "texto"
    THEN Ret(Msg("mode_set_text") \o Msg("consent_msg"),
             [us EXCEPT !.interaction_mode = "text", !.stage = "awaiting_consent"])
    ELSE IF Truthy(processed_text) /\ Lower(processed_text) = "voz"
    THEN IF ~asr_pipeline
         THEN Ret(Msg("asr_disabled_use_text"),
                  [us EXCEPT !.interaction_mode = "text", !.stage = "awaiting_interaction_mode"])
         ELSE IF ~google_tts_client
         THEN Ret(Msg("tts_disabled_use_text"),
                  [us EXCEPT !.interaction_mode = "text", !.stage = "awaiting_interaction_mode"])
         ELSE IF ~s3_client \/ ~R2_ENDPOINT_URL_PUBLIC
         THEN Ret(Msg("r2_disabled_use_text"),
                  [us EXCEPT !.interaction_mode = "text", !.stage = "awaiting_interaction_mode"])
         ELSE Ret(Msg("mode_set_voice") \o Msg("consent_msg"),
                  [us EXCEPT !.interaction_mode = "voice", !.stage = "awaiting_consent"])
    ELSE Ret(Msg("reprompt_choose_mode"), us)

StageAwaitingConsent(us, processed_text) ==
    IF Truthy(processed_text) /\ Lower(processed_text) \in {"sim", "s"}
    THEN Ret(Msg("ask_name"), [us EXCEPT !.stage = "awaiting_name"])
    ELSE IF Truthy(processed_text) /\ Lower(processed_text) \in {"não", "n", "nao"}
    THEN Ret(Msg("consent_declined"), [us EXCEPT !.stage = "finished"])
    ELSE Ret(Msg("reprompt_consent"), us)

\* StageAwaitingName that moves on without storing the name
StageAwaitingName_NoStore(us, processed_text) ==
    IF Truthy(processed_text)
    THEN Ret(MsgArg("thanks_ask_age", processed_text), [us EXCEPT !.stage = "awaiting_age"])
    ELSE Ret(Msg("reprompt_name"), us)

StageAwaitingName(us, processed_text) ==
    IF Truthy(processed_text)
    THEN Ret(MsgArg("thanks_ask_age", processed_text),
             [us EXCEPT !.name = processed_text, !.stage = "awaiting_age"])
    ELSE Ret(Msg("reprompt_name"), us)

\* StageAwaitingAge without the upper bound of the range test
StageAwaitingAge_NoUpperBound(us, processed_text) ==
    IF Truthy(processed_text) /\ IsDigit(processed_text) /\ IntRaises(processed_text)
    THEN Ret(Raised, us)
    ELSE
    IF Truthy(processed_text) /\ IsDigit(processed_text) /\ 5 <= ToInt(processed_text)
    THEN Ret(Msg("ask_smoking_status"),
             [us EXCEPT !.age = ToInt(processed_text), !.stage = "awaiting_smoking_status"])
    ELSE Ret(Msg("reprompt_age"), us)

StageAwaitingAge(us, processed_text) ==
    IF Truthy(processed_text) /\ IsDigit(processed_text) /\ IntRaises(processed_text)
    THEN Ret(Raised, us)
    ELSE
    IF Truthy(processed_text) /\ IsDigit(processed_text)
       /\ 5 <= ToInt(processed_text) /\ ToInt(processed_text) <= 120
    THEN Ret(Msg("ask_smoking_status"),
             [us EXCEPT !.age = ToInt(processed_text), !.stage = "awaiting_smoking_status"])
    ELSE Ret(Msg("reprompt_age"), us)

StageAwaitingSmokingStatus(us, processed_text) ==
    IF Truthy(processed_text)
       /\ Lower(processed_text) \in {"fumante", "ex-fumante", "não fumante", "nao fumante"}
    THEN Ret(Msg("ask_diagnosis"),
             [us EXCEPT !.smoking_status = Lower(processed_text), !.stage = "awaiting_diagnosis"])
    ELSE Ret(Msg("reprompt_smoking_status"), us)

StageAwaitingDiagnosis(us, processed_text) ==
    IF Truthy(processed_text)
    THEN Ret(Msg("ask_emotional_state"),
             [us EXCEPT !.diagnosis = processed_text, !.stage = "awaiting_emotional_state"])
    ELSE Ret(Msg("reprompt_diagnosis"), us)

StageAwaitingEmotionalState(us, processed_text) ==
    IF Truthy(processed_text) /\ IsDigit(processed_text) /\ IntRaises(processed_text)
    THEN Ret(Raised, us)
    ELSE
    IF Truthy(processed_text) /\ IsDigit(processed_text)
       /\ 1 <= ToInt(processed_text) /\ ToInt(processed_text) <= 5
    THEN Ret(Msg("ask_environment"),
             [us EXCEPT !.emotional_state = ToInt(processed_text), !.stage = "awaiting_environment"])
    ELSE Ret(Msg("reprompt_emotional_state"), us)

StageAwaitingEnvironment(us, processed_text) ==
    IF Truthy(processed_text)
    THEN Ret(Msg("data_registered_lets_begin"),
             [us EXCEPT !.environment = processed_text,
                        !.tasks_queue = TaskCatalog,
                        !.stage = "requesting_first_audio_task"])
    ELSE Ret(Msg("reprompt_environment"), us)

\* str.title() on the smoking statuses the stage table stores
Title(s) ==
    CASE s = "fumante" -> "Fumante"
      [] s = "ex-fumante" -> "Ex-Fumante"
      [] s = "não fumante" -> "Não Fumante"
      [] s = "nao fumante" -> "Nao Fumante"
      [] OTHER -> s

\* task.replace('_', ' ').title() on the task names
TaskLabel(task) ==
    CASE task = "silence" -> "Silence"
      [] task = "vogal_a" -> "Vogal A"
      [] task = "vogal_e" -> "Vogal E"
      [] task = "vogal_i" -> "Vogal I"
      [] task = "vogal_o" -> "Vogal O"
      [] task = "fricativo_s" -> "Fricativo S"
      [] task = "fricativo_z" -> "Fricativo Z"
      [] task = "sentence_read" -> "Sentence Read"
      [] OTHER -> task

\* an integer field as the f-string prints it; None prints as "None"
Str(n) ==
    CASE n = 5 -> "5"
      [] n = 121 -> "121"
      [] OTHER -> "None"

\* the lines of audio_urls_formatted: per pair of the dict, in insertion
\* order, the label of the task and the URL
RECURSIVE AudioLines(_)
AudioLines(audio_urls) ==
    IF audio_urls = <<>> THEN <<>>
    ELSE <<[msg |-> "summary_audio_task", arg |-> TaskLabel(Head(audio_urls).task)],
           [msg |-> "summary_audio_url", arg |-> Head(audio_urls).url]>>
         \o AudioLines(Tail(audio_urls))

\* get_completion_message raises: smoking_status is None, which has no title()
CompletionRaises(us) == us.smoking_status = None

\* get_completion_message without title() on the smoking status and with
\* the task names as they are stored
get_completion_message_Verbatim(us) ==
    <<[msg |-> "completion_summary", arg |-> ""],
      [msg |-> "summary_name", arg |-> us.name],
      [msg |-> "summary_age", arg |-> Str(us.age)],
      [msg |-> "summary_diagnosis", arg |-> us.diagnosis],
      [msg |-> "summary_smoking_status", arg |-> us.smoking_status],
      [msg |-> "summary_emotional_state", arg |-> Str(us.emotional_state)],
      [msg |-> "summary_environment", arg |-> us.environment]>>
    \o (IF us.audio_urls = <<>> THEN Msg("summary_no_audio")
        ELSE [i \in 1..(2 * Len(us.audio_urls)) |->
                 IF i % 2 = 1
                 THEN [msg |-> "summary_audio_task", arg |-> us.audio_urls[(i + 1) \div 2].task]
                 ELSE [msg |-> "summary_audio_url", arg |-> us.audio_urls[i \div 2].url]])

\* get_completion_message: the summary gives the collected fields, the
\* smoking status in title case, and the task -> URL pairs of audio_urls in
\* insertion order
get_completion_message(us) ==
    <<[msg |-> "completion_summary", arg |-> ""],
      [msg |-> "summary_name", arg |-> us.name],
      [msg |-> "summary_age", arg |-> Str(us.age)],
      [msg |-> "summary_diagnosis", arg |-> us.diagnosis],
      [msg |-> "summary_smoking_status", arg |-> Title(us.smoking_status)],
      [msg |-> "summary_emotional_state", arg |-> Str(us.emotional_state)],
      [msg |-> "summary_environment", arg |-> us.environment]>>
    \o (IF us.audio_urls = <<>> THEN Msg("summary_no_audio") ELSE AudioLines(us.audio_urls))

\* get_task_prompt
get_task_prompt(task) == MsgArg("task_prompt", task)

StageAwaitingAudio(us, processed_text, audio) ==
    IF Truthy(audio)
    THEN IF us.tasks_queue # <<>>
         THEN LET next_task == Head(us.tasks_queue)
              IN Ret(MsgArg("task_audio_saved", us.current_audio_task) \o get_task_prompt(next_task),
                     [us EXCEPT !.tasks_queue = Tail(@),
                                !.current_audio_task = next_task,
                                !.stage = AwaitingAudio(next_task)])
         ELSE IF CompletionRaises(us) THEN Ret(Raised, us)
         ELSE Ret(MsgArg("task_audio_saved", us.current_audio_task) \o get_completion_message(us),
                  [us EXCEPT !.stage = "finished_tasks", !.current_audio_task = None])
    ELSE Ret(MsgArg("reprompt_audio_for_task", us.current_audio_task), us)

\* StageRequestingFirstAudioTask that forgets to set current_audio_task
StageRequestingFirstAudioTask_NoCurrent(us) ==
    IF us.tasks_queue # <<>>
    THEN LET next_task == Head(us.tasks_queue)
         IN Ret(get_task_prompt(next_task),
                [us EXCEPT !.tasks_queue = Tail(@),
                           !.stage = AwaitingAudio(next_task)])
    ELSE IF CompletionRaises(us) THEN Ret(Raised, us)
    ELSE Ret(get_completion_message(us), [us EXCEPT !.stage = "finished_tasks"])

\* StageRequestingFirstAudioTask with pop() in place of pop(0)
StageRequestingFirstAudioTask_PopLast(us) ==
    IF us.tasks_queue # <<>>
    THEN LET next_task == us.tasks_queue[Len(us.tasks_queue)]
         IN Ret(get_task_prompt(next_task),
                [us EXCEPT !.tasks_queue = SubSeq(@, 1, Len(@) - 1),
                           !.current_audio_task = next_task,
                           !.stage = AwaitingAudio(next_task)])
    ELSE IF CompletionRaises(us) THEN Ret(Raised, us)
    ELSE Ret(get_completion_message(us), [us EXCEPT !.stage = "finished_tasks"])

StageRequestingFirstAudioTask(us) ==
    IF us.tasks_queue # <<>>
    THEN LET next_task == Head(us.tasks_queue)
         IN Ret(get_task_prompt(next_task),
                [us EXCEPT !.tasks_queue = Tail(@),
                           !.current_audio_task = next_task,
                           !.stage = AwaitingAudio(next_task)])
    ELSE IF CompletionRaises(us) THEN Ret(Raised, us)
    ELSE Ret(get_completion_message(us), [us EXCEPT !.stage = "finished_tasks"])

\* StageFinishedTasks that leaves the stage at finished_tasks
StageFinishedTasks_Stays(us, processed_text) ==
    IF Truthy(processed_text) /\ Lower(processed_text) = "/start"
    THEN Ret(Welcome, init_user_state)
    ELSE Ret(Msg("contribution_complete"), us)

StageFinishedTasks(us, processed_text) ==
    IF Truthy(processed_text) /\ Lower(processed_text) = "/start"
    THEN Ret(Welcome, init_user_state)
    ELSE Ret(Msg("contribution_complete"), [us EXCEPT !.stage = "finished"])

\* StageFinished in which any text starts the conversation again
StageFinished_AnyTextRestarts(us, processed_text) ==
    IF Truthy(processed_text)
    THEN Ret(Welcome, init_user_state)
    ELSE Ret(Msg("session_already_finished"), us)

StageFinished(us, processed_text) ==
    IF Truthy(processed_text) /\ Lower(processed_text) = "/start"
    THEN Ret(Welcome, init_user_state)
    ELSE Ret(Msg("session_already_finished"), us)

\* the if/elif chain on current_stage; a stage no branch names leaves
\* response_text = "" and the session as it is
StageTableAt(current_stage, us, processed_text, audio) ==
    IF current_stage = "initial" THEN StageInitial(us, processed_text)
    ELSE IF current_stage = "awaiting_consent" THEN StageAwaitingConsent(us, processed_text)
    ELSE IF current_stage = "awaiting_name" THEN StageAwaitingName(us, processed_text)
    ELSE IF current_stage = "awaiting_age" THEN StageAwaitingAge(us, processed_text)
    ELSE IF current_stage = "awaiting_smoking_status" THEN StageAwaitingSmokingStatus(us, processed_text)
    ELSE IF current_stage = "awaiting_diagnosis" THEN StageAwaitingDiagnosis(us, processed_text)
    ELSE IF current_stage = "awaiting_emotional_state" THEN StageAwaitingEmotionalState(us, processed_text)
    ELSE IF current_stage = "awaiting_environment" THEN StageAwaitingEnvironment(us, processed_text)
    ELSE IF StartsWithAwaitingAudio(current_stage) THEN StageAwaitingAudio(us, processed_text, audio)
    ELSE IF current_stage = "requesting_first_audio_task" THEN StageRequestingFirstAudioTask(us)
    ELSE IF current_stage = "finished_tasks" THEN StageFinishedTasks(us, processed_text)
    ELSE IF current_stage = "finished" THEN StageFinished(us, processed_text)
    ELSE Ret(<<>>, us)

\* the stage table on the stage the session object holds, which is
\* current_stage whenever nothing ran between reading it and the table
StageTable(us, processed_text, audio) == StageTableAt(us.stage, us, processed_text, audio)

-----------------------------------------------------------------------------
(* The media branch of process_whatsapp_message (voice mode, audio event)  *)

\* what the collaborators answer during one turn:
\*   info       GET of the media record: "ok", "no_url", "http_error" (HTTPStatusError), "error"
\*   file       GET of the download URL: "ok", "http_error", "error"
\*   transcript what transcribe_audio returns
\*   upload     what upload_audio_bytes_to_r2 returns: a public URL or None
\* (an answer is used only if the turn gets as far as asking for it)
NoEnv == [info |-> "n/a", file |-> "n/a", transcript |-> "n/a", upload |-> "n/a"]

Envs ==
    [info : {"ok", "no_url", "http_error", "error"},
     file : {"ok", "http_error", "error"},
     transcript : Transcripts,
     upload : {"url", None}]

\* the branch either returns from the handler (returned = TRUE, with its
\* reply) or goes on to the stage table with processed_text and the session
MediaOut(returned, reply, processed_text, state) ==
    [returned |-> returned, reply |-> reply, processed_text |-> processed_text, state |-> state]

\* MediaBranch that records the recording under its audio category as soon
\* as it is downloaded, before any upload has confirmed a URL
MediaBranch_StoreUnconfirmed(us, user_input_text, env) ==
    LET audio_category ==
            IF us.current_audio_task # None THEN us.current_audio_task ELSE "received_message"
        marked == [us EXCEPT !.audio_urls = DictPut(@, audio_category, "pending")]
    IN
    IF env.info = "http_error"
    THEN MediaOut(TRUE, Msg("apology_download_audio"), user_input_text, us)
    ELSE IF env.info = "error"
    THEN MediaOut(TRUE, Msg("apology_process_audio"), user_input_text, us)
    ELSE IF env.info = "no_url"
    THEN MediaOut(TRUE, Msg("apology_obtain_audio"), user_input_text, us)
    ELSE IF env.file # "ok"
    THEN MediaOut(TRUE, Msg("apology_download_audio"), user_input_text, us)
    ELSE MediaOut(TRUE, Msg("apology_process_audio"), user_input_text, marked)

MediaBranch(us, user_input_text, env) ==
    LET silence == us.current_audio_task = "silence"
        text    == IF silence THEN "[Audio de silencio]" ELSE env.transcript
    IN
    IF env.info = "http_error"
    THEN MediaOut(TRUE, Msg("apology_download_audio"), user_input_text, us)
    ELSE IF env.info = "error"
    THEN MediaOut(TRUE, Msg("apology_process_audio"), user_input_text, us)
    ELSE IF env.info = "no_url"
    THEN MediaOut(TRUE, Msg("apology_obtain_audio"), user_input_text, us)
    ELSE IF env.file = "http_error"
    THEN MediaOut(TRUE, Msg("apology_download_audio"), user_input_text, us)
    ELSE IF env.file = "error"
    THEN MediaOut(TRUE, Msg("apology_process_audio"), user_input_text, us)
    ELSE IF ~silence /\ ~Truthy(text)
    THEN MediaOut(TRUE, Msg("apology_not_understood"), text, us)
    ELSE IF s3_client /\ R2_ENDPOINT_URL_PUBLIC
    THEN IF ~MessageNameBound
         \* message.get('id', ...) raises NameError, caught by `except Exception`
         THEN MediaOut(TRUE, Msg("apology_process_audio"), text, us)
         ELSE IF env.upload # None /\ us.current_audio_task # None
         THEN MediaOut(FALSE, <<>>, text,
                       [us EXCEPT !.audio_urls = DictPut(@, us.current_audio_task, env.upload)])
         ELSE MediaOut(FALSE, <<>>, text, us)
    ELSE MediaOut(FALSE, <<>>, text, us)

-----------------------------------------------------------------------------
(* process_whatsapp_message: the whole turn on the session of user_id.     *)
(* The result also tells whether the session was (re)initialised.          *)

Turn(reply, state, reset) ==
    [response_text |-> reply, state |-> state, reset |-> reset]

\* IsStart without .lower()
IsStart_CaseSensitive(user_input_text) == Truthy(user_input_text) /\ user_input_text = "/start"

\* the first test of the handler: no session yet, or the reset command
IsStart(user_input_text) == Truthy(user_input_text) /\ Lower(user_input_text) = "/start"

\* VoiceModeGotText that also switches the session to text mode
VoiceModeGotText_SwitchesMode(user_state, current_stage) ==
    Turn(Msg("voice_mode_got_text"), [user_state EXCEPT !.interaction_mode = "text"], FALSE)

\* a typed text in voice mode: the notice, plus the request for the current
\* task's recording at an audio stage, and the handler returns
VoiceModeGotText(user_state, current_stage) ==
    IF StartsWithAwaitingAudio(current_stage)
    THEN Turn(Msg("voice_mode_got_text") \o MsgArg("expected_audio_for_task", user_state.current_audio_task),
              user_state, FALSE)
    ELSE Turn(Msg("voice_mode_got_text"), user_state, FALSE)

\* TextModeGotAudio that compares the mode with the Portuguese word
TextModeGotAudio_WrongLiteral(interaction_mode, user_audio_media_id) ==
    interaction_mode = "texto" /\ Truthy(user_audio_media_id)

\* the test of the mode-mismatch branch for a recording in text mode
TextModeGotAudio(interaction_mode, user_audio_media_id) ==
    interaction_mode = "text" /\ Truthy(user_audio_media_id)

\* the test of the media branch: a recording in voice mode with ASR and R2
EntersMedia(interaction_mode, user_audio_media_id) ==
    interaction_mode = "voice" /\ Truthy(user_audio_media_id) /\ asr_pipeline /\ s3_client

\* a turn that goes through the stage table
TableTurn(current_stage, us, processed_text, audio) ==
    LET r == StageTableAt(current_stage, us, processed_text, audio)
    IN Turn(r.response_text, r.state, r.state = init_user_state /\ r.response_text = Welcome)

\* the handler from the media branch on: user_state is the session object as
\* it is when the downloads have answered, current_stage the stage read
\* before them
MediaTurn(user_state, current_stage, user_input_text, user_audio_media_id, env) ==
    LET m == MediaBranch(user_state, user_input_text, env) IN
    IF m.returned
    THEN Turn(m.reply, m.state, FALSE)
    ELSE TableTurn(current_stage, m.state, m.processed_text, user_audio_media_id)

\* the handler on an event that does not enter the media branch
NonMediaTurn(user_state, user_input_text, user_audio_media_id) ==
    LET current_stage == user_state.stage
        interaction_mode == user_state.interaction_mode
    IN
    IF interaction_mode = "voice" /\ ~Truthy(user_audio_media_id) /\ Truthy(user_input_text)
    THEN VoiceModeGotText(user_state, current_stage)
    ELSE IF TextModeGotAudio(interaction_mode, user_audio_media_id)
    THEN Turn(Msg("text_mode_got_audio"), user_state, FALSE)
    ELSE IF ~Truthy(user_input_text) /\ ~Truthy(user_audio_media_id)
    THEN Turn(Msg("not_understood"), user_state, FALSE)
    ELSE TableTurn(current_stage, user_state, user_input_text, user_audio_media_id)

\* the handler run from its first line to its return with nothing in
\* between, on the session the user's key holds or on its absence
ProcessOn(session, user_input_text, user_audio_media_id, env) ==
    IF ~session.present \/ IsStart(user_input_text)
    THEN Turn(Welcome, init_user_state, TRUE)
    ELSE
    LET user_state == session.us IN
    IF EntersMedia(user_state.interaction_mode, user_audio_media_id)
    THEN MediaTurn(user_state, user_state.stage, user_input_text, user_audio_media_id, env)
    ELSE NonMediaTurn(user_state, user_input_text, user_audio_media_id)

process_whatsapp_message(user_id, user_input_text, user_audio_media_id, env) ==
    LET state_key == get_user_state_key("whatsapp", user_id) IN
    ProcessOn(IF state_key \in DOMAIN user_states THEN Session(user_states[state_key]) ELSE NoSession,
              user_input_text, user_audio_media_id, env)

-----------------------------------------------------------------------------
(* State machine *)

\* last: the event (user, text, audio), the collaborators' answers (env), the
\* stage and mode the session had when the event arrived, and the reply
NoEvent ==
    [user |-> None, text |-> None, audio |-> None, env |-> NoEnv,
     stage |-> None, mode |-> None, reply |-> <<>>]

\* the module is imported: each collaborator is configured or not, and no
\* session exists
Init ==
    /\ asr_pipeline \in BOOLEAN
    /\ google_tts_client \in BOOLEAN
    /\ s3_client \in BOOLEAN
    /\ WHATSAPP_ACCESS_TOKEN = TRUE
    /\ user_states = <<>>
    /\ task_log = [u \in Users |-> <<>>]
    /\ last = NoEvent
    /\ objects = <<>> /\ state_ref = [k \in StateKeys(Users) |-> 0]
    /\ tasks = <<>> /\ outbox = <<>>
    /\ first_state = [u \in Users |-> NoSession]

\* what handle_incoming_whatsapp_message sends for a run of the handler: its
\* reply, or the apology of the except clause when it raised
ReplyOf(response_text) ==
    IF response_text = Raised THEN Msg("apology_internal_error") ELSE response_text

\* one turn: the handler runs on the event and its result is the session
Handle(u, text, audio, env) ==
    \E t \in {process_whatsapp_message(u, text, audio, env)} :
    LET key == get_user_state_key("whatsapp", u)
        before == IF key \in DOMAIN user_states THEN user_states[key].current_audio_task ELSE None
        after == t.state.current_audio_task
    IN /\ user_states' = (key :> t.state) @@ user_states
       /\ task_log' = [task_log EXCEPT ![u] =
                          IF t.reset THEN <<>>
                          ELSE IF after # None /\ after # before THEN Append(@, after)
                          ELSE @]
       /\ last' = [user |-> u, text |-> text, audio |-> audio, env |-> env,
                   stage |-> IF key \in DOMAIN user_states THEN user_states[key].stage ELSE None,
                   mode |-> IF key \in DOMAIN user_states THEN user_states[key].interaction_mode ELSE None,
                   reply |-> ReplyOf(t.response_text)]
       /\ UNCHANGED <<asr_pipeline, google_tts_client, s3_client, WHATSAPP_ACCESS_TOKEN>>
       /\ UNCHANGED task_vars

\* whatsapp_receive_message dispatches a message of type "text"
ReceiveText(u, text) == Handle(u, text, None, NoEnv)

\* the collaborators answer only in a turn that enters the media branch
EntersMediaBranch(u, text, audio) ==
    LET key == get_user_state_key("whatsapp", u) IN
    /\ key \in DOMAIN user_states
    /\ ~IsStart(text)
    /\ user_states[key].interaction_mode = "voice"
    /\ Truthy(audio) /\ asr_pipeline /\ s3_client

\* whatsapp_receive_message dispatches a message of type "audio"
ReceiveAudio(u, media_id) ==
    \E env \in (IF EntersMediaBranch(u, None, media_id) THEN Envs ELSE {NoEnv}) :
        Handle(u, None, media_id, env)

Next ==
    \/ \E u \in Users, text \in TextInputs : ReceiveText(u, text)
    \/ \E u \in Users, media_id \in MediaIds : ReceiveAudio(u, media_id)

Spec == Init /\ [][Next]_vars

-----------------------------------------------------------------------------
(* The end of a pass.  A session whose eight recordings were stored is at   *)
(* the stage of the last task with every URL in audio_urls; the branch of   *)
(* the stage table for a recording then ends the pass, and the handler      *)
(* runs on the session that branch leaves.  SpecTable starts from those     *)
(* sessions.                                                                *)

\* the names and the smoking statuses the stage table has stored
TableNames == {"sim", "Ex-Fumante"}
TableStatuses == {Lower("Ex-Fumante"), "fumante"}

\* the public URL of the recording of the n-th task
TaskUrl(n) == <<"url1", "url2", "url3", "url4", "url5", "url6", "url7", "url8">>[n]

\* audio_urls once the recordings of the first n tasks were stored, in order
RECURSIVE StoredUrls(_)
StoredUrls(n) ==
    IF n = 0 THEN <<>> ELSE DictPut(StoredUrls(n - 1), TaskCatalog[n], TaskUrl(n))

\* the sessions at the stage of the last task, its recording stored
TableSessions ==
    {[init_user_state EXCEPT
        !.stage = AwaitingAudio(TaskCatalog[Len(TaskCatalog)]),
        !.interaction_mode = mode,
        !.name = name, !.age = ToInt("5"), !.smoking_status = status,
        !.diagnosis = "sim", !.emotional_state = ToInt("5"), !.environment = "N",
        !.current_audio_task = TaskCatalog[Len(TaskCatalog)],
        !.audio_urls = StoredUrls(Len(TaskCatalog)),
        !.tasks_queue = <<>>] :
        mode \in {"text", "voice"}, name \in TableNames, status \in TableStatuses}

InitTable ==
    /\ asr_pipeline = TRUE /\ google_tts_client = TRUE /\ s3_client = TRUE
    /\ WHATSAPP_ACCESS_TOKEN = TRUE
    /\ \E s \in TableSessions :
          user_states = [k \in StateKeys(Users) |-> s]
    /\ task_log = [u \in Users |-> TaskCatalog]
    /\ last = NoEvent
    /\ objects = <<>> /\ state_ref = [k \in StateKeys(Users) |-> 0]
    /\ tasks = <<>> /\ outbox = <<>>
    /\ first_state = [u \in Users |-> NoSession]

\* the stage table handles the recording of the current task, whose URL is
\* stored and whose transcript is processed_text
TableRecording(u, media_id, processed_text) ==
    LET key == get_user_state_key("whatsapp", u)
        us == user_states[key]
    IN /\ key \in DOMAIN user_states
       /\ StartsWithAwaitingAudio(us.stage)
       /\ \E i \in DOMAIN us.audio_urls : us.audio_urls[i].task = us.current_audio_task
       /\ \E t \in {TableTurn(us.stage, us, processed_text, media_id)} :
             /\ user_states' = [user_states EXCEPT ![key] = t.state]
             /\ last' = [user |-> u, text |-> None, audio |-> media_id,
                         env |-> [info |-> "ok", file |-> "ok",
                                  transcript |-> processed_text, upload |-> "url"],
                         stage |-> us.stage, mode |-> us.interaction_mode,
                         reply |-> ReplyOf(t.response_text)]
       /\ UNCHANGED <<asr_pipeline, google_tts_client, s3_client, WHATSAPP_ACCESS_TOKEN, task_log>>
       /\ UNCHANGED task_vars

NextTable ==
    \/ \E u \in Users, text \in TextInputs : ReceiveText(u, text)
    \/ \E u \in Users, media_id \in MediaIds : ReceiveAudio(u, media_id)
    \/ \E u \in Users, media_id \in MediaIds : TableRecording(u, media_id, "sim")

SpecTable == InitTable /\ [][NextTable]_vars

-----------------------------------------------------------------------------
(* The handlers as asyncio tasks.  whatsapp_receive_message starts one     *)
(* task per message and returns; a task runs until it awaits a response    *)
(* (the media-info GET, the file GET, the POST of the reply), and another  *)
(* task may run while it waits.  Nothing orders the tasks of one user, and *)
(* no task looks at the id of its message.                                 *)

\* how many tasks a run creates
MaxTasks == 2

\* the text events of the runs with tasks
TaskTexts == {"/start", "sim", "²"}

\* the collaborators' answers in the runs with tasks
TaskEnvs ==
    [info : {"ok", "error"}, file : {"ok"}, transcript : {None, "sim"}, upload : {"url"}]

\* the sessions the runs with tasks start from: none, the session that
\* 'texto' or 'voz' leaves at awaiting_consent, or the text-mode session
\* that consent and a name leave at awaiting_age
FirstStates ==
    LET chosen(choice) == StageInitial(init_user_state, choice).state
        named == StageAwaitingName(StageAwaitingConsent(chosen("texto"), "sim").state, "sim").state
    IN {NoSession} \cup {Session(chosen(choice)) : choice \in {"texto", "voz"}} \cup {Session(named)}

\* an enumeration of the users, to give their first sessions an identity
UserOrder ==
    CHOOSE f \in [1..Cardinality(Users) -> Users] : \A u \in Users : \E i \in DOMAIN f : f[i] = u
UserIndex(u) == CHOOSE i \in DOMAIN UserOrder : UserOrder[i] = u

\* the session a user's key holds
CurrentSession(u) ==
    LET ref == state_ref[get_user_state_key("whatsapp", u)] IN
    IF ref = 0 THEN NoSession ELSE Session(objects[ref])

\* a task: its message, the answers its requests will get, where it waits
\* (pc), its local user_state (obj, a reference) and current_stage, its
\* response_text once it has one, and whether its turn moved the stage
Task(msg_id, u, text, audio, env, pc, obj, current_stage, reply, advanced) ==
    [msg_id |-> msg_id, user |-> u, text |-> text, audio |-> audio, env |-> env,
     pc |-> pc, obj |-> obj, current_stage |-> current_stage,
     reply |-> reply, advanced |-> advanced]

\* what generate_speech_from_text and upload_audio_bytes_to_r2 give for a
\* reply: the bytes or None, and the public URL or None; the upload is called
\* only with bytes
TtsOutcomes ==
    {[speech |-> "bytes", url |-> "url"], [speech |-> "bytes", url |-> None],
     [speech |-> None, url |-> None]}

\* the synthesis was not called
NotTried == [speech |-> None, url |-> None]

\* PayloadType without the test of the public URL
PayloadType_NoUrlTest(user_state, tts) ==
    [type |-> IF tts.speech # None THEN "audio" ELSE "text",
     mode |-> user_state.interaction_mode, stored |-> tts.speech # None /\ tts.url # None]

\* the type of the payload: the text payload is replaced by the audio link
\* when the synthesis gave bytes and the upload gave a URL; with it, the
\* interaction_mode send_whatsapp_response read and whether the reply's
\* speech was synthesized and stored
PayloadType(user_state, tts) ==
    [type |-> IF tts.speech # None /\ tts.url # None THEN "audio" ELSE "text",
     mode |-> user_state.interaction_mode, stored |-> tts.speech # None /\ tts.url # None]

\* send_whatsapp_response up to its POST: the payload is the text, or in
\* voice mode with TTS and R2 the audio link when both the synthesis and the
\* upload of the reply succeed
PayloadKinds(us) ==
    IF us.interaction_mode = "voice" /\ google_tts_client /\ s3_client /\ R2_ENDPOINT_URL_PUBLIC
    THEN {PayloadType(us, tts) : tts \in TtsOutcomes}
    ELSE {PayloadType(us, NotTried)}

\* the POST task i issues: the payload, and the reply it carries
Post(i, kind, reply) ==
    [task |-> i, kind |-> kind.type, mode |-> kind.mode, stored |-> kind.stored, text |-> reply]

\* SendsNothing without the test of the credentials
SendsNothing_NoCheck == FALSE

\* send_whatsapp_response logs and returns before its POST when a
\* credential of the Meta API is missing
SendsNothing == ~WHATSAPP_ACCESS_TOKEN \/ ~WHATSAPP_PHONE_NUMBER_ID

\* task i, whose record is tk, ends process_whatsapp_message with the turn t:
\* the dicts are objs, the keys hold refs, the returned user_state is the
\* dict obj.  handle_incoming_whatsapp_message goes straight on to
\* send_whatsapp_response, which runs up to its POST.  When the handler
\* raised, the key keeps what it held and the except clause sends the apology
\* with the dict the key holds; with no dict there, that send raises in turn
\* and is only logged.
Finish(i, tk, t, obj, objs, refs) ==
    LET raised == t.response_text = Raised
        current_user_state == IF raised THEN state_ref[get_user_state_key("whatsapp", tk.user)] ELSE obj
        sends == ~SendsNothing /\ current_user_state # 0
        ended == [tk EXCEPT !.pc = IF sends THEN "await_post" ELSE "done",
                            !.obj = obj, !.reply = ReplyOf(t.response_text),
                            !.advanced = ~t.reset /\ tk.obj # 0 /\ t.state.stage # objects[tk.obj].stage]
    IN /\ objects' = objs
       /\ state_ref' = IF raised THEN state_ref ELSE refs
       /\ tasks' = IF i > Len(tasks) THEN Append(tasks, ended) ELSE [tasks EXCEPT ![i] = ended]
       /\ IF sends
          THEN \E kind \in PayloadKinds(objs[current_user_state]) :
                  outbox' = Append(outbox, Post(i, kind, ReplyOf(t.response_text)))
          ELSE outbox' = outbox

\* init_user_state makes a new dict and the user's key holds it
FinishReset(i, tk, t, objs) ==
    Finish(i, tk, t, Len(objs) + 1, Append(objs, init_user_state),
           [state_ref EXCEPT ![get_user_state_key("whatsapp", tk.user)] = Len(objs) + 1])

\* asyncio.create_task(handle_incoming_whatsapp_message(...)): the task runs
\* process_whatsapp_message up to its first await that waits, which is the
\* media-info GET of the media branch; every other path runs to the POST
CreateTask(msg_id, u, text, audio) ==
    LET i == Len(tasks) + 1
        ref == state_ref[get_user_state_key("whatsapp", u)]
        new == Task(msg_id, u, text, audio, NoEnv, "new", ref,
                    IF ref = 0 THEN None ELSE objects[ref].stage, <<>>, FALSE)
    IN /\ Len(tasks) < MaxTasks
       /\ IF ref = 0 \/ IsStart(text)
          THEN FinishReset(i, new, Turn(Welcome, init_user_state, TRUE), objects)
          ELSE IF EntersMedia(objects[ref].interaction_mode, audio)
          THEN /\ \E env \in TaskEnvs :
                     tasks' = Append(tasks, [new EXCEPT !.env = env, !.pc = "await_info"])
               /\ UNCHANGED <<objects, state_ref, outbox>>
          ELSE \E t \in {NonMediaTurn(objects[ref], text, audio)} :
                  IF t.reset
                  THEN FinishReset(i, new, t, objects)
                  ELSE Finish(i, new, t, ref, [objects EXCEPT ![ref] = t.state], state_ref)
       /\ UNCHANGED <<asr_pipeline, google_tts_client, s3_client, WHATSAPP_ACCESS_TOKEN, first_state>>
       /\ UNCHANGED seq_vars

\* FinishMedia that stores the task's dict under the key on every return
FinishMedia_StoresOnReturn(i) ==
    LET tk == tasks[i]
        us == objects[tk.obj]
    IN \E m \in {MediaBranch(us, tk.text, tk.env)},
          t \in {MediaTurn(us, tk.current_stage, tk.text, tk.audio, tk.env)} :
          IF t.reset
          THEN FinishReset(i, tk, t, [objects EXCEPT ![tk.obj] = m.state])
          ELSE Finish(i, tk, t, tk.obj, [objects EXCEPT ![tk.obj] = t.state],
                      [state_ref EXCEPT ![get_user_state_key("whatsapp", tk.user)] = tk.obj])

\* the task resumes with the downloads answered: transcription, upload and
\* the stage table run on the dict the task holds, which the key may no
\* longer hold, and on the current_stage read before the downloads; only the
\* end of the stage table stores the dict under the key again
FinishMedia(i) ==
    LET tk == tasks[i]
        us == objects[tk.obj]
    IN \E m \in {MediaBranch(us, tk.text, tk.env)},
          t \in {MediaTurn(us, tk.current_stage, tk.text, tk.audio, tk.env)} :
          IF t.reset
          THEN FinishReset(i, tk, t, [objects EXCEPT ![tk.obj] = m.state])
          ELSE Finish(i, tk, t, tk.obj, [objects EXCEPT ![tk.obj] = t.state],
                      IF m.returned THEN state_ref ELSE [state_ref EXCEPT ![get_user_state_key("whatsapp", tk.user)] = tk.obj])

\* the media-info GET answers
MediaInfoResponse(i) ==
    /\ tasks[i].pc = "await_info"
    /\ IF tasks[i].env.info = "ok"
       THEN /\ tasks' = [tasks EXCEPT ![i].pc = "await_file"]
            /\ UNCHANGED <<objects, state_ref, outbox>>
       ELSE FinishMedia(i)
    /\ UNCHANGED <<asr_pipeline, google_tts_client, s3_client, WHATSAPP_ACCESS_TOKEN, first_state>>
    /\ UNCHANGED seq_vars

\* the file GET answers
MediaFileResponse(i) ==
    /\ tasks[i].pc = "await_file"
    /\ FinishMedia(i)
    /\ UNCHANGED <<asr_pipeline, google_tts_client, s3_client, WHATSAPP_ACCESS_TOKEN, first_state>>
    /\ UNCHANGED seq_vars

\* the POST of the reply answers, and the task ends; the answer, a success
\* or an HTTP error, is only logged
PostResponse(i) ==
    /\ tasks[i].pc = "await_post"
    /\ tasks' = [tasks EXCEPT ![i].pc = "done"]
    /\ UNCHANGED <<objects, state_ref, outbox>>
    /\ UNCHANGED <<asr_pipeline, google_tts_client, s3_client, WHATSAPP_ACCESS_TOKEN, first_state>>
    /\ UNCHANGED seq_vars

\* whatsapp_receive_message gets a message of type "text" or "audio", or
\* gets again a message it has got before, with the same id and content
ReceiveTextTask(u, text) == CreateTask(Len(tasks) + 1, u, text, None)
ReceiveAudioTask(u, media_id) == CreateTask(Len(tasks) + 1, u, None, media_id)
Redeliver(j) == CreateTask(tasks[j].msg_id, tasks[j].user, tasks[j].text, tasks[j].audio)

\* every collaborator is configured, no task exists, and each user has one
\* of the first sessions
InitTasks ==
    /\ asr_pipeline = TRUE /\ google_tts_client = TRUE /\ s3_client = TRUE
    /\ WHATSAPP_ACCESS_TOKEN \in BOOLEAN
    /\ user_states = <<>>
    /\ task_log = [u \in Users |-> <<>>]
    /\ last = NoEvent
    /\ first_state \in [Users -> FirstStates]
    /\ objects = [i \in 1..Cardinality(Users) |-> first_state[UserOrder[i]].us]
    /\ state_ref = [k \in StateKeys(Users) |->
                        LET u == CHOOSE v \in Users : get_user_state_key("whatsapp", v) = k
                        IN IF first_state[u].present THEN UserIndex(u) ELSE 0]
    /\ tasks = <<>> /\ outbox = <<>>

NextTasks ==
    \/ \E u \in Users, text \in TaskTexts : ReceiveTextTask(u, text)
    \/ \E u \in Users, media_id \in MediaIds : ReceiveAudioTask(u, media_id)
    \/ \E j \in DOMAIN tasks : Redeliver(j)
    \/ \E i \in DOMAIN tasks : MediaInfoResponse(i)
    \/ \E i \in DOMAIN tasks : MediaFileResponse(i)
    \/ \E i \in DOMAIN tasks : PostResponse(i)

SpecTasks == InitTasks /\ [][NextTasks]_vars

-----------------------------------------------------------------------------
(* The tasks of two senders.  Their messages arrive in any order and       *)
(* their tasks interleave like those of one sender.                        *)

TwoUsers == {"5511", "5522"}
TwoUsersOrder == <<"5511", "5522">>

\* every collaborator is configured, no task exists, and each of the two
\* senders has a dict of its own: the first any of the first sessions, the
\* second the text-mode one
InitUsers ==
    /\ asr_pipeline = TRUE /\ google_tts_client = TRUE /\ s3_client = TRUE
    /\ WHATSAPP_ACCESS_TOKEN = TRUE
    /\ user_states = <<>>
    /\ task_log = [u \in Users |-> <<>>]
    /\ last = NoEvent
    /\ first_state \in {f \in [TwoUsers -> FirstStates] :
                            f[TwoUsersOrder[2]] = Session(StageInitial(init_user_state, "texto").state)}
    /\ objects = [i \in DOMAIN TwoUsersOrder |-> first_state[TwoUsersOrder[i]].us]
    /\ state_ref = [k \in StateKeys(TwoUsers) |->
                        LET i == CHOOSE j \in DOMAIN TwoUsersOrder :
                                     get_user_state_key("whatsapp", TwoUsersOrder[j]) = k
                        IN IF first_state[TwoUsersOrder[i]].present THEN i ELSE 0]
    /\ tasks = <<>> /\ outbox = <<>>

\* the text events of the two senders
TwoUsersTexts == {"/start", "sim"}

NextUsers ==
    \/ \E u \in TwoUsers, text \in TwoUsersTexts : ReceiveTextTask(u, text)
    \/ \E u \in TwoUsers, media_id \in MediaIds : ReceiveAudioTask(u, media_id)
    \/ \E i \in DOMAIN tasks : MediaInfoResponse(i)
    \/ \E i \in DOMAIN tasks : MediaFileResponse(i)
    \/ \E i \in DOMAIN tasks : PostResponse(i)

SpecUsers == InitUsers /\ [][NextUsers]_vars

-----------------------------------------------------------------------------
(* Vocabulary of the properties *)

Keys == DOMAIN user_states
Key(u) == get_user_state_key("whatsapp", u)

\* the reset command, in the spellings of TextInputs
ResetCommands == {"/start", "/START"}
IsResetEvent(ev) == ev.audio = None /\ ev.text \in ResetCommands

AudioStages == {AwaitingAudio(TaskCatalog[i]) : i \in 1..Len(TaskCatalog)}

QuestionStages ==
    {"initial", "awaiting_consent", "awaiting_name", "awaiting_age",
     "awaiting_smoking_status", "awaiting_diagnosis", "awaiting_emotional_state",
     "awaiting_environment"}

RecognizedStages ==
    QuestionStages \cup {"requesting_first_audio_task"} \cup AudioStages
        \cup {"finished_tasks", "finished"}

\* the successors the stage graph gives
GraphSuccessors(stage) ==
    CASE stage = "initial" -> {"awaiting_consent"}
      [] stage = "awaiting_consent" -> {"awaiting_name", "finished"}
      [] stage = "awaiting_name" -> {"awaiting_age"}
      [] stage = "awaiting_age" -> {"awaiting_smoking_status"}
      [] stage = "awaiting_smoking_status" -> {"awaiting_diagnosis"}
      [] stage = "awaiting_diagnosis" -> {"awaiting_emotional_state"}
      [] stage = "awaiting_emotional_state" -> {"awaiting_environment"}
      [] stage = "awaiting_environment" -> {"requesting_first_audio_task"}
      [] stage = "requesting_first_audio_task" -> {"awaiting_audio_silence"}
      [] stage \in AudioStages ->
            {AwaitingAudio(TaskCatalog[i + 1]) :
                i \in {j \in 1..(Len(TaskCatalog) - 1) : AwaitingAudio(TaskCatalog[j]) = stage}}
            \cup {"finished_tasks"}
      [] stage = "finished_tasks" -> {"finished"}
      [] OTHER -> {}

\* the text an event resolves to: the typed body, or the transcript of a
\* recording that was downloaded
ResolvedText(ev) ==
    IF ev.audio = None THEN ev.text
    ELSE IF ev.env.info = "ok" /\ ev.env.file = "ok" THEN ev.env.transcript
    ELSE None

\* the acceptance predicate of each question stage, as the stage table states it
Accepts(stage, text) ==
    /\ Truthy(text)
    /\ CASE stage = "initial" -> Lower(text) \in {"texto", "voz"}
         [] stage = "awaiting_consent" -> Lower(text) \in {"sim", "s", "não", "nao", "n"}
         [] stage = "awaiting_age" -> IsDigit(text) /\ ToInt(text) \in 5..120
         [] stage = "awaiting_smoking_status" ->
                Lower(text) \in {"fumante", "ex-fumante", "não fumante", "nao fumante"}
         [] stage = "awaiting_emotional_state" -> IsDigit(text) /\ ToInt(text) \in 1..5
         [] OTHER -> TRUE

-----------------------------------------------------------------------------
(* Properties *)

\* C1: for every non-reset event handled on an existing session, the stage
\* afterwards is the stage before or a successor the stage graph gives for it.
C1_StageFollowsGraph ==
    [][\A k \in Keys :
          ~IsResetEvent(last') =>
             \/ user_states'[k].stage = user_states[k].stage
             \/ user_states'[k].stage \in GraphSuccessors(user_states[k].stage)]_vars

\* C2: in every reachable state every session's stage is a recognized stage.
C2_StageRecognized ==
    \A k \in Keys : user_states[k].stage \in RecognizedStages

\* the re-prompt of each question stage
RePrompt(stage) ==
    CASE stage = "initial" -> Msg("reprompt_choose_mode")
      [] stage = "awaiting_consent" -> Msg("reprompt_consent")
      [] stage = "awaiting_name" -> Msg("reprompt_name")
      [] stage = "awaiting_age" -> Msg("reprompt_age")
      [] stage = "awaiting_smoking_status" -> Msg("reprompt_smoking_status")
      [] stage = "awaiting_diagnosis" -> Msg("reprompt_diagnosis")
      [] stage = "awaiting_emotional_state" -> Msg("reprompt_emotional_state")
      [] stage = "awaiting_environment" -> Msg("reprompt_environment")
      [] OTHER -> <<>>

\* C3: at a question stage, an event whose resolved text fails the stage's
\* acceptance predicate leaves the whole session (stage, metadata,
\* tasks_queue, interaction_mode) as it was and is answered with a non-empty
\* reply; a typed non-empty text in text mode gets the stage's re-prompt.
C3_RejectionLeavesSession ==
    [][\A k \in Keys :
          (/\ k = Key(last'.user)
           /\ user_states[k].stage \in QuestionStages
           /\ ~IsResetEvent(last')
           /\ ~Accepts(user_states[k].stage, ResolvedText(last')))
          => /\ user_states'[k] = user_states[k]
             /\ last'.reply # <<>>
             /\ (last'.audio = None /\ Truthy(last'.text)
                 /\ user_states[k].interaction_mode = "text")
                => last'.reply = RePrompt(user_states[k].stage)]_vars

\* C4: after a text event equal to the reset command, in any case, at any
\* stage and in either mode, the session is at stage initial with every
\* collected field null, no current task, no audio URL and an empty queue.
C4_ResetCommand ==
    (last.user # None /\ IsResetEvent(last)) =>
        LET s == user_states[Key(last.user)] IN
        /\ s.stage = "initial"
        /\ s.name = None /\ s.age = NoneInt /\ s.diagnosis = None
        /\ s.smoking_status = None /\ s.emotional_state = NoneInt
        /\ s.environment = None
        /\ s.current_audio_task = None
        /\ s.audio_urls = <<>>
        /\ s.tasks_queue = <<>>

\* C4 witness: "/START" arrived in voice mode at awaiting_consent
C4_Witness ==
    /\ last.text = "/START" /\ last.audio = None
    /\ last.mode = "voice" /\ last.stage = "awaiting_consent"
    /\ user_states[Key(last.user)].stage = "initial"

IsPrefix(s, t) == Len(s) <= Len(t) /\ s = SubSeq(t, 1, Len(s))
IsSuffix(s, t) == Len(s) <= Len(t) /\ s = SubSeq(t, Len(t) - Len(s) + 1, Len(t))

C5_QueueInv ==
    \A u \in Users :
        Key(u) \in Keys =>
            LET q == user_states[Key(u)].tasks_queue IN
            /\ IsPrefix(task_log[u], TaskCatalog)
            /\ IsSuffix(q, TaskCatalog)
            /\ task_log[u] # <<>> => task_log[u] \o q = TaskCatalog

C5_QueueStep ==
    \A k \in Keys :
        LET q == user_states[k].tasks_queue
            qn == user_states'[k].tasks_queue
        IN /\ \/ qn = q
              \/ q # <<>> /\ qn = Tail(q)
              \/ q = <<>> /\ qn = TaskCatalog
              \/ IsResetEvent(last') /\ qn = <<>>
           /\ (/\ user_states[k].stage \in AudioStages
               /\ last'.audio = None
               /\ ~IsResetEvent(last'))
              => /\ qn = q
                 /\ user_states'[k].current_audio_task = user_states[k].current_audio_task
                 /\ user_states'[k].stage = user_states[k].stage

C6_EnvironmentStartsFirstTask ==
    [][\A k \in Keys :
          (user_states[k].stage = "awaiting_environment"
           /\ user_states'[k].environment # None)
          => /\ user_states'[k].stage = "awaiting_audio_silence"
             /\ user_states'[k].current_audio_task = "silence"
             /\ user_states'[k].tasks_queue = Tail(TaskCatalog)]_vars

Range(q) == {q[i] : i \in 1..Len(q)}

C8_Inv ==
    \A k \in Keys :
        LET s == user_states[k] IN
        /\ \A i \in 1..Len(TaskCatalog) :
              (s.stage = AwaitingAudio(TaskCatalog[i])) <=> (s.current_audio_task = TaskCatalog[i])
        /\ s.current_audio_task # None => s.current_audio_task \notin Range(s.tasks_queue)
        /\ s.stage \notin AudioStages => s.current_audio_task = None

C8_Step ==
    \A k \in Keys :
        (/\ user_states[k].current_audio_task # None
         /\ user_states'[k].current_audio_task = None
         /\ ~IsResetEvent(last'))
        => /\ last'.audio # None
           /\ user_states[k].tasks_queue = <<>>

\* C8: stage = awaiting_audio_<t> exactly when current_audio_task = t, and
\* then t is not in tasks_queue; at every other stage current_audio_task is
\* null; short of a reset, current_audio_task returns to null only in a turn
\* that handles an audio while tasks_queue is empty.
C8_CurrentTaskMatchesStage == []C8_Inv /\ [][C8_Step]_vars

\* C8 witness: silence is current at awaiting_audio_silence, the rest queued
C8_Witness ==
    \E k \in Keys :
        /\ user_states[k].stage = "awaiting_audio_silence"
        /\ user_states[k].current_audio_task = "silence"
        /\ user_states[k].tasks_queue = Tail(TaskCatalog)

C9_Inv ==
    \A k \in Keys :
        \A i \in 1..Len(user_states[k].audio_urls) :
            /\ user_states[k].audio_urls[i].task \in Range(TaskCatalog)
            /\ user_states[k].audio_urls[i].task \notin Range(user_states[k].tasks_queue)

C9_Step ==
    \A k \in Keys :
        user_states'[k].audio_urls # user_states[k].audio_urls =>
            \/ IsResetEvent(last') /\ user_states'[k].audio_urls = <<>>
            \/ /\ last'.audio # None
               /\ last'.env.info = "ok" /\ last'.env.file = "ok"
               /\ last'.env.upload = "url"
               /\ user_states[k].current_audio_task # None
               /\ user_states'[k].audio_urls =
                      DictPut(user_states[k].audio_urls, user_states[k].current_audio_task, "url")

C10_VoiceAudioAdvances ==
    [][\A k \in Keys :
          (/\ k = Key(last'.user)
           /\ user_states[k].interaction_mode = "voice"
           /\ last'.audio # None
           /\ last'.env.info = "ok" /\ last'.env.file = "ok"
           /\ Truthy(last'.env.transcript) /\ last'.env.upload = "url"
           /\ \/ user_states[k].stage \in AudioStages
              \/ /\ user_states[k].stage \in QuestionStages
                 /\ Accepts(user_states[k].stage, last'.env.transcript))
          => user_states'[k].stage \in GraphSuccessors(user_states[k].stage)]_vars

\* C11: while interaction_mode = text, an audio event at any stage is answered
\* with the mode-mismatch message and leaves the whole session (stage,
\* metadata, tasks_queue, interaction_mode) unchanged.
C11_TextModeRejectsAudio ==
    [][\A k \in Keys :
          (/\ k = Key(last'.user)
           /\ user_states[k].interaction_mode = "text"
           /\ last'.audio # None)
          => /\ last'.reply = Msg("text_mode_got_audio")
             /\ user_states'[k] = user_states[k]]_vars

\* C11 witness: a recording arrived in text mode at awaiting_audio_silence,
\* the stage that asks for one, and got the mode-mismatch message
C11_Witness ==
    /\ last.audio # None /\ last.mode = "text"
    /\ last.stage = "awaiting_audio_silence"
    /\ last.reply = Msg("text_mode_got_audio")
    /\ user_states[Key(last.user)].stage = "awaiting_audio_silence"

\* C13: while interaction_mode = voice, a text-only event other than the
\* reset command at a question stage after initial, whose text satisfies the
\* stage's predicate, is accepted: the stage moves to a successor the stage
\* graph gives.
C13_VoiceModeTextAccepted ==
    [][\A k \in Keys :
          (/\ k = Key(last'.user)
           /\ user_states[k].interaction_mode = "voice"
           /\ last'.audio = None /\ ~IsResetEvent(last')
           /\ user_states[k].stage \in QuestionStages \ {"initial"}
           /\ Accepts(user_states[k].stage, last'.text))
          => user_states'[k].stage \in GraphSuccessors(user_states[k].stage)]_vars

\* the collaborator that fails in a voice-mode audio turn: the download (media
\* info or file), the transcription (no text), or the storage upload (no URL)
CollaboratorFails(env) ==
    \/ env.info # "ok" \/ env.file # "ok"
    \/ ~Truthy(env.transcript)
    \/ env.upload = None

VoiceCapable == asr_pipeline /\ google_tts_client /\ s3_client /\ R2_ENDPOINT_URL_PUBLIC

\* C15: 'voz' at stage initial while transcription, synthesis or storage is
\* unavailable leaves the session in text mode at stage initial, where a
\* following 'texto' is accepted.
C15_VoiceFallbackStaysInitial ==
    [][\A k \in Keys :
          (/\ k = Key(last'.user)
           /\ user_states[k].stage = "initial"
           /\ last'.audio = None /\ Truthy(last'.text) /\ Lower(last'.text) = "voz"
           /\ ~VoiceCapable)
          => /\ user_states'[k].interaction_mode = "text"
             /\ user_states'[k].stage = "initial"]_vars

\* C16: once a session has left stage initial, no event other than a reset
\* changes its interaction_mode.
C16_ModeFixedAfterInitial ==
    [][\A k \in Keys :
          (/\ user_states[k].stage # "initial"
           /\ ~IsResetEvent(last'))
          => user_states'[k].interaction_mode = user_states[k].interaction_mode]_vars

\* C16 witness: 'texto' was typed at awaiting_consent in a voice-mode session
\* and the session is still in voice mode
C16_Witness ==
    /\ last.audio = None /\ last.text = "texto"
    /\ last.stage = "awaiting_consent" /\ last.mode = "voice"
    /\ user_states[Key(last.user)].interaction_mode = "voice"

\* C17 as stated: a session at stage initial, where no mode has been accepted
\* yet, has an interaction_mode that is neither text nor voice.
C17_ModeUnsetUntilChosen ==
    \A k \in Keys :
        user_states[k].stage = "initial" =>
            user_states[k].interaction_mode \notin {"text", "voice"}

C17_Inv ==
    \A k \in Keys :
        /\ user_states[k].interaction_mode \in {"text", "voice"}
        /\ user_states[k].stage = "initial" => user_states[k].interaction_mode = "text"

C17_Step ==
    \A k \in DOMAIN user_states' :
        /\ (k \notin Keys \/ (k = Key(last'.user) /\ IsResetEvent(last')))
              => user_states'[k].interaction_mode = "text"
        /\ (k \in Keys /\ user_states'[k].interaction_mode = "voice"
                        /\ user_states[k].interaction_mode # "voice")
              => /\ user_states[k].stage = "initial"
                 /\ last'.audio = None /\ Lower(last'.text) = "voz"
                 /\ VoiceCapable

\* C17, amended: a session that has just been created or reset has
\* interaction_mode = text, the default; the mode is text or voice in every
\* state, text while the stage is initial, and it becomes voice only when
\* 'voz' is accepted at stage initial with every collaborator available.
C17_ModeDefaultsToText == []C17_Inv /\ [][C17_Step]_vars

\* C17 witness: the reset command arrived in a voice-mode session, and the
\* session is at stage initial in text mode
C17_Witness ==
    /\ last.user # None /\ IsResetEvent(last) /\ last.mode = "voice"
    /\ user_states[Key(last.user)].stage = "initial"
    /\ user_states[Key(last.user)].interaction_mode = "text"

-----------------------------------------------------------------------------
(* Properties of the tasks *)

\* the tasks of a user, and those of them that have returned from
\* process_whatsapp_message
TasksOf(u) == {i \in DOMAIN tasks : tasks[i].user = u}
Processed(i) == tasks[i].pc \in {"await_post", "done"}

\* the orders in which the tasks of a user can be put one after the other
Orders(u) ==
    {order \in [1..Cardinality(TasksOf(u)) -> TasksOf(u)] :
        \A a, b \in DOMAIN order : order[a] = order[b] => a = b}

\* the session after the events of the tasks order[k..] are processed one
\* after the other from the session r, each with the answers its task got;
\* ok is false when an event would consult an answer its task never got
RECURSIVE SerialRun(_, _, _)
SerialRun(r, order, k) ==
    IF k > Len(order) \/ ~r.ok THEN r
    ELSE LET tk == tasks[order[k]] IN
         IF /\ r.s.present /\ ~IsStart(tk.text)
            /\ EntersMedia(r.s.us.interaction_mode, tk.audio)
            /\ tk.env = NoEnv
         THEN [ok |-> FALSE, s |-> r.s]
         ELSE SerialRun([ok |-> TRUE,
                         s |-> Session(ProcessOn(r.s, tk.text, tk.audio, tk.env).state)],
                        order, k + 1)

Returns(i) ==
    /\ i \in DOMAIN tasks' /\ tasks'[i].pc \in {"await_post", "done"}
    /\ i \notin DOMAIN tasks \/ tasks[i].pc \in {"await_info", "await_file"}

\* task i handles a message that an earlier task has handled and whose
\* handling then moved the stage
IsRedeliveryOfAccepted(i) ==
    \E j \in DOMAIN tasks :
        /\ j < i /\ tasks[j].msg_id = tasks'[i].msg_id /\ tasks[j].advanced

\* C19: the turn of a task that handles a redelivered message, one whose
\* first handling was accepted, leaves the session's stage, tasks_queue and
\* audio_urls as they were.
C19_RedeliveryIdempotent ==
    [][\A u \in Users, i \in DOMAIN tasks' :
          (tasks'[i].user = u /\ Returns(i) /\ IsRedeliveryOfAccepted(i)) =>
             /\ CurrentSession(u)'.us.stage = CurrentSession(u).us.stage
             /\ CurrentSession(u)'.us.tasks_queue = CurrentSession(u).us.tasks_queue
             /\ CurrentSession(u)'.us.audio_urls = CurrentSession(u).us.audio_urls]_vars

\* C20: the POSTs of a user's replies are issued in the order in which the
\* tasks of their messages were created.
C20_RepliesInOrder ==
    \A a, b \in DOMAIN outbox :
        (a < b /\ tasks[outbox[a].task].user = tasks[outbox[b].task].user)
            => outbox[a].task < outbox[b].task

\* task i is created or takes a step in this step
Acts(i) == i \notin DOMAIN tasks \/ tasks'[i] # tasks[i]

C21_Inv ==
    \A u \in TwoUsers :
        (\A i \in TasksOf(u) : Processed(i)) =>
            \E order \in Orders(u) :
                SerialRun([ok |-> TRUE, s |-> first_state[u]], order, 1)
                    = [ok |-> TRUE, s |-> CurrentSession(u)]

C21_Step ==
    \A u \in TwoUsers :
        (\A i \in DOMAIN tasks' : Acts(i) => tasks'[i].user # u)
            => CurrentSession(u)' = CurrentSession(u)

\* C21: with the messages of two senders arriving in any order and their
\* tasks interleaving, a step of a task of one sender leaves the session of
\* the other as it was, and when a sender's tasks have returned its session
\* is the one its own events give, processed alone from its first session.
C21_UsersIndependent == []C21_Inv /\ [][C21_Step]_vars

\* C21 witness: a recording of one sender waits for its file while a text of
\* the other sender, sent later, has been accepted and has moved that
\* sender's stage
C21_Witness ==
    /\ Len(tasks) = 2 /\ tasks[1].user # tasks[2].user
    /\ tasks[1].pc = "await_file"
    /\ tasks[2].advanced
    /\ CurrentSession(tasks[1].user) = first_state[tasks[1].user]
    /\ CurrentSession(tasks[2].user) # first_state[tasks[2].user]

\* the POSTs issued for task i
PostsOf(i) == {k \in DOMAIN outbox : outbox[k].task = i}

\* C22 as stated: every dispatched event gets exactly one outbound reply,
\* never zero and never two: a task that has returned from the handler has
\* exactly one POST, and a task still in the handler has none.
C22_ExactlyOneReply ==
    \A i \in DOMAIN tasks :
        Cardinality(PostsOf(i)) = IF Processed(i) THEN 1 ELSE 0

\* C22: with the credentials of the Meta API set, a task that has returned
\* from the handler has exactly one POST, whose text is the handler's reply
\* or the apology when the handler raised; with a credential missing no POST
\* is ever issued; a task still in the handler has no POST.
C22_OneReplyWhenConfigured ==
    \A i \in DOMAIN tasks :
        /\ Cardinality(PostsOf(i)) =
              IF Processed(i) /\ WHATSAPP_ACCESS_TOKEN /\ WHATSAPP_PHONE_NUMBER_ID THEN 1 ELSE 0
        /\ \A k \in PostsOf(i) : outbox[k].text = tasks[i].reply

\* C22 witness: the handler raised on a text-mode session at awaiting_age,
\* and the task's one POST carries the apology
C22_Witness ==
    \E i \in DOMAIN tasks :
        /\ tasks[i].pc = "done" /\ tasks[i].text = "²"
        /\ tasks[i].current_stage = "awaiting_age"
        /\ tasks[i].reply = Msg("apology_internal_error")
        /\ \E k \in DOMAIN outbox : PostsOf(i) = {k} /\ outbox[k].text = Msg("apology_internal_error")

\* C23: every event produces a non-empty reply text.
C23_ReplyNonEmpty == last # NoEvent => last.reply # <<>>

\* C24: a reply is delivered as audio only if the interaction_mode of the
\* session handed to the delivery is voice and the synthesis and the storage
\* of the reply both succeeded; in every other case it is delivered as text.
C24_AudioOnlyVoiceAndStored ==
    \A k \in DOMAIN outbox :
        /\ outbox[k].kind \in {"audio", "text"}
        /\ outbox[k].kind = "audio" <=> (outbox[k].mode = "voice" /\ outbox[k].stored)

\* C24 witness: in voice mode one reply went out as audio, and another, whose
\* synthesis or upload failed, went out as text
C24_Witness ==
    \E a, b \in DOMAIN outbox :
        /\ outbox[a].kind = "audio" /\ outbox[a].mode = "voice" /\ outbox[a].stored
        /\ outbox[b].kind = "text" /\ outbox[b].mode = "voice" /\ ~outbox[b].stored

\* C25: at stage finished every event other than the reset command leaves
\* the session (stage, collected fields, tasks_queue, interaction_mode) as
\* it was, and the reset command leads to the fresh session at initial.
C25_FinishedAbsorbing ==
    [][\A k \in Keys :
          (k = Key(last'.user) /\ user_states[k].stage = "finished") =>
             IF IsResetEvent(last')
             THEN user_states'[k] = init_user_state /\ user_states'[k].stage = "initial"
             ELSE user_states'[k] = user_states[k]]_vars

\* C25 witness: a session that declined consent after "texto" is at finished
\* after a typed text that is not the reset command was handled there
C25_Witness ==
    /\ last.stage = "finished" /\ last.text = "sim" /\ last.audio = None
    /\ last.reply = Msg("session_already_finished")
    /\ user_states[Key(last.user)].stage = "finished"

\* the stored values the stage table admits
AgeRange == 5..120
EmotionalStateRange == 1..5
SmokingStatuses == {"fumante", "ex-fumante", "não fumante", "nao fumante"}

\* every session holds no age or one in the range, no emotional state or one
\* in the range, no smoking status or one of the four
C28_Inv ==
    \A k \in Keys :
        /\ user_states[k].age = NoneInt \/ user_states[k].age \in AgeRange
        /\ user_states[k].emotional_state = NoneInt
              \/ user_states[k].emotional_state \in EmotionalStateRange
        /\ user_states[k].smoking_status = None
              \/ user_states[k].smoking_status \in SmokingStatuses

\* an integer outside the range, typed at awaiting_age or at
\* awaiting_emotional_state, leaves the session as it was
C28_Step ==
    \A k \in Keys :
        (/\ k = Key(last'.user) /\ last'.audio = None
         /\ IsDigit(last'.text) /\ ~IntRaises(last'.text)
         /\ \/ user_states[k].stage = "awaiting_age" /\ ToInt(last'.text) \notin AgeRange
            \/ /\ user_states[k].stage = "awaiting_emotional_state"
               /\ ToInt(last'.text) \notin EmotionalStateRange)
        => user_states'[k] = user_states[k]

\* C28: in every state age is null or in 5..120, emotional_state is null or
\* in 1..5 and smoking_status is null or one of fumante, ex-fumante,
\* não fumante, nao fumante; an integer outside the range at awaiting_age
\* or awaiting_emotional_state is rejected and stores nothing.
C28_StoredValuesInRange == []C28_Inv /\ [][C28_Step]_vars

\* C28 witness: with age 5 and a smoking status stored, "121" was typed at
\* awaiting_emotional_state and no score is stored
C28_Witness ==
    /\ last.user # None
    /\ last.stage = "awaiting_emotional_state" /\ last.text = "121"
    /\ user_states[Key(last.user)].stage = "awaiting_emotional_state"
    /\ user_states[Key(last.user)].age = 5
    /\ user_states[Key(last.user)].smoking_status = "ex-fumante"
    /\ user_states[Key(last.user)].emotional_state = NoneInt

\* while task i waits in its media branch, a later task of the same user
\* has handled the reset command
ResetWhileSuspended(i) ==
    /\ i \in DOMAIN tasks /\ tasks[i].pc \in {"await_info", "await_file"}
    /\ \E j \in DOMAIN tasks :
          /\ j > i /\ tasks[j].user = tasks[i].user
          /\ IsStart(tasks[j].text) /\ Processed(j)

\* C30: a reset is never undone: when a task that was suspended in its
\* media branch while a later task of the same user handled the reset
\* command returns from the handler, the user's key holds the same dict with
\* the same content as before that return, never the dict of the returning
\* task.
C30_ResetNotUndone ==
    [][\A u \in Users, i \in DOMAIN tasks :
          (tasks[i].user = u /\ ResetWhileSuspended(i) /\ Returns(i)) =>
             /\ state_ref' = state_ref
             /\ CurrentSession(u)' = CurrentSession(u)
             /\ state_ref'[Key(u)] # tasks'[i].obj]_vars

\* C30 witness: a voice-mode recording waited for its download, the reset
\* command was handled, the recording's task then finished, and the key
\* holds the fresh session while the task's dict is still in voice mode
C30_Witness ==
    \E u \in Users :
        /\ Len(tasks) = 2 /\ tasks[1].user = u /\ tasks[2].user = u
        /\ tasks[1].audio # None /\ tasks[1].env # NoEnv /\ tasks[1].env.info = "ok"
        /\ IsStart(tasks[2].text)
        /\ tasks[1].pc = "done" /\ tasks[2].pc = "done"
        /\ CurrentSession(u) = Session(init_user_state)
        /\ objects[tasks[1].obj].interaction_mode = "voice"

Shows(r, m, v) == \E i \in DOMAIN r : r[i].msg = m /\ r[i].arg = v

\* the reply r lists, one after the other and in the order of audio_urls,
\* each task under the name label gives it, followed by its URL
ListsAudio(r, audio_urls, label(_)) ==
    \E base \in 0..Len(r) :
        /\ base + 2 * Len(audio_urls) = Len(r)
        /\ \A j \in DOMAIN audio_urls :
              /\ r[base + 2 * j - 1] = [msg |-> "summary_audio_task", arg |-> label(audio_urls[j].task)]
              /\ r[base + 2 * j] = [msg |-> "summary_audio_url", arg |-> audio_urls[j].url]

\* the turn of this step enters finished_tasks
EntersFinishedTasks(k) ==
    /\ k = Key(last'.user)
    /\ user_states[k].stage # "finished_tasks"
    /\ user_states'[k].stage = "finished_tasks"

\* the stored value itself
Verbatim(v) == v

CompletionEvents ==
    {[text |-> t, audio |-> None, env |-> NoEnv] : t \in TextInputs}
    \cup {[text |-> None, audio |-> m,
           env |-> [info |-> "ok", file |-> "ok", transcript |-> tr, upload |-> "url"]] :
              m \in MediaIds, tr \in {tr \in Transcripts : Truthy(tr)}}

\* the sessions one event leads to from the sessions of S
AfterOneEvent(S) ==
    {Session(ProcessOn(s, e.text, e.audio, e.env).state) : s \in S, e \in CompletionEvents}

\* the sessions some sequence of events leads to from the sessions of seen,
\* of which frontier are those not yet followed
RECURSIVE SessionsFrom(_, _)
SessionsFrom(seen, frontier) ==
    IF frontier = {} THEN seen
    ELSE LET new == AfterOneEvent(frontier) \ seen
         IN SessionsFrom(seen \cup new, new)

\* the session is at finished_tasks in the mode with a URL for every task
CompletedIn(mode, us) ==
    /\ us.stage = "finished_tasks" /\ us.interaction_mode = mode
    /\ \A n \in DOMAIN TaskCatalog :
          \E i \in DOMAIN us.audio_urls : us.audio_urls[i].task = TaskCatalog[n]

\* C29: with every collaborator available and succeeding there is, for text
\* mode and for voice mode, a sequence of events from first contact that
\* leads to a session at finished_tasks in that mode with a recording
\* stored for each of the eight tasks.
C29_CompletableInEachMode ==
    (last = NoEvent /\ VoiceCapable) =>
        \A mode \in {"text", "voice"} :
            \E s \in SessionsFrom({NoSession}, {NoSession}) : CompletedIn(mode, s.us)

\* the stages of a pass in the order the stage graph gives them
PassStages ==
    <<"initial", "awaiting_consent", "awaiting_name", "awaiting_age",
      "awaiting_smoking_status", "awaiting_diagnosis", "awaiting_emotional_state",
      "awaiting_environment", "requesting_first_audio_task">>
    \o [i \in DOMAIN TaskCatalog |-> AwaitingAudio(TaskCatalog[i])]
    \o <<"finished_tasks">>

\* the session is past the stage: its own stage comes later in the pass.
\* A stage outside the pass (finished, or the unrecognized
\* awaiting_interaction_mode, which is entered from initial) is past nothing.
IsPast(us, stage) ==
    \E i, j \in DOMAIN PassStages :
        PassStages[i] = stage /\ PassStages[j] = us.stage /\ i < j

\* the collected fields that are set
FieldsSet(us) ==
    {f \in {"name", "age", "smoking_status", "diagnosis", "emotional_state", "environment"} :
        CASE f = "name" -> us.name # None
          [] f = "age" -> us.age # NoneInt
          [] f = "smoking_status" -> us.smoking_status # None
          [] f = "diagnosis" -> us.diagnosis # None
          [] f = "emotional_state" -> us.emotional_state # NoneInt
          [] f = "environment" -> us.environment # None}

\* the collected fields whose question the session is past
FieldsAsked(us) ==
    {f \in {"name", "age", "smoking_status", "diagnosis", "emotional_state", "environment"} :
        CASE f = "name" -> IsPast(us, "awaiting_name")
          [] f = "age" -> IsPast(us, "awaiting_age")
          [] f = "smoking_status" -> IsPast(us, "awaiting_smoking_status")
          [] f = "diagnosis" -> IsPast(us, "awaiting_diagnosis")
          [] f = "emotional_state" -> IsPast(us, "awaiting_emotional_state")
          [] f = "environment" -> IsPast(us, "awaiting_environment")}

\* C32: in every state the collected fields agree with the stage: each of
\* name, age, smoking_status, diagnosis, emotional_state and environment is
\* set exactly when the session is past the stage that asks for it, a
\* session at finished, which declining consent leads to, has none of them
\* set, and tasks_queue is empty at every stage up to and including
\* awaiting_environment.
C32_FieldsAgreeWithStage ==
    \A k \in Keys :
        LET us == user_states[k] IN
        /\ FieldsSet(us) = FieldsAsked(us)
        /\ us.stage = "finished" => FieldsSet(us) = {}
        /\ ~IsPast(us, "awaiting_environment") => us.tasks_queue = <<>>

\* C32 witness: a session past every question, with the six fields set and
\* the seven tasks after the first in its queue
C32_Witness ==
    \E k \in Keys :
        /\ user_states[k].stage = "awaiting_audio_silence"
        /\ Cardinality(FieldsSet(user_states[k])) = 6
        /\ Len(user_states[k].tasks_queue) = Len(TaskCatalog) - 1
====
